---- MODULE Spec2Model ----
\* Shape-level model of models/Denoiser.py: the construction of DenoiserUNet
\* (module lists and their channel widths), one forward pass stepped module by
\* module over tensor shapes [b, c, h, w], and the size arithmetic of the
\* strided, transposed and dilated convolutions.
EXTENDS Integers, Sequences, FiniteSets, TLC

\* ---------------------------------------------------------------- bounds
MaxLevels == 2
MaxMult == 2
MaxBlocks == 2
MaxSize == 5
MaxOps == 2

\* ------------------------------------------------------ program constants
NumGroups == 32
DefaultInputChannels == 2
DefaultOutputChannels == 1
DefaultNChannels == 32
DefaultNBlocks == 2
DefaultChMults == <<1, 2, 2, 4>>
RefSize == 16
Dilations == <<2, 4, 8, 16>>

\* ---------------------------------------------------------------- shapes
Shape(b, c, h, w) == [b |-> b, c |-> c, h |-> h, w |-> w]
NoShape == Shape(0, 0, 0, 0)

\* where a tensor or the parameters of a module live
Devices == {"cpu", "cuda"}

\* the conditioning value t: Python None, a batch of raw timesteps on a device,
\* an embedding (the output of a linear layer, on the device of its parameters)
NoneT == [kind |-> "None", b |-> 0, c |-> 0, dev |-> "none"]
Steps(b, dev) == [kind |-> "steps", b |-> b, c |-> 0, dev |-> dev]
Emb(b, c, dev) == [kind |-> "emb", b |-> b, c |-> c, dev |-> dev]
\* the caller leaves the argument t out
Absent == [kind |-> "absent", b |-> 0, c |-> 0, dev |-> "none"]

\* result of running a module: err = "none" and the output shape, or the error
Ok(x) == [err |-> "none", x |-> x]
Err(k) == [err |-> k, x |-> NoShape]

\* --------------------------------------------------- library size formulas
\* torch.nn.Conv2d output size along one axis
ConvOut(n, ksize, stride, pad, dil) ==
  ((n + 2 * pad - dil * (ksize - 1) - 1) \div stride) + 1

\* torch.nn.ConvTranspose2d output size along one axis (dilation 1, no output padding)
ConvTransposeOut(n, ksize, stride, pad) ==
  (n - 1) * stride - 2 * pad + (ksize - 1) + 1

Conv2d(cin, cout, ksize, stride, pad, dil) ==
  [in_channels |-> cin, out_channels |-> cout, ksize |-> ksize,
   stride |-> stride, pad |-> pad, dil |-> dil]

Conv2dForward(cv, x) ==
  IF x.c # cv.in_channels THEN Err("channels")
  ELSE IF \/ x.h + 2 * cv.pad < cv.dil * (cv.ksize - 1) + 1
          \/ x.w + 2 * cv.pad < cv.dil * (cv.ksize - 1) + 1 THEN Err("size")
  ELSE Ok(Shape(x.b, cv.out_channels,
                ConvOut(x.h, cv.ksize, cv.stride, cv.pad, cv.dil),
                ConvOut(x.w, cv.ksize, cv.stride, cv.pad, cv.dil)))

ConvTranspose2dForward(cv, x) ==
  IF x.c # cv.in_channels THEN Err("channels")
  ELSE Ok(Shape(x.b, cv.out_channels,
                ConvTransposeOut(x.h, cv.ksize, cv.stride, cv.pad),
                ConvTransposeOut(x.w, cv.ksize, cv.stride, cv.pad)))

\* ---------------------------------------------------------------- get_pad
CeilDiv(a, b) == (a + b - 1) \div b
\* Python int(): truncation toward zero
TruncHalf(v) == IF v >= 0 THEN v \div 2 ELSE -((-v) \div 2)

get_pad_no_dilation(in_, ksize, stride, atrous) ==
  TruncHalf((CeilDiv(in_, stride) - 1) * stride + (ksize - 1) + 1 - in_)

get_pad(in_, ksize, stride, atrous) ==
  LET out_ == CeilDiv(in_, stride)
  IN TruncHalf((out_ - 1) * stride + atrous * (ksize - 1) + 1 - in_)

\* ------------------------------------------------------------ leaf modules
\* Normalize(in_channels): GroupNorm(32, in_channels) can be built only when
\* the channel count is a multiple of the group count
NormalizeOK(in_channels) == in_channels > 0 /\ in_channels % NumGroups = 0

\* MLP.forward: conv, per-position channel mixing, conv, residual add
MLPForward(embedding_size, x) ==
  IF x.c # embedding_size THEN Err("channels") ELSE Ok(x)

\* Stripformer: a feature map in, a feature map of the same shape out
StripformerForward(input_channels, x) == Ok(x)

TimeEmbedding(n_channels) == [n_channels |-> n_channels]

\* emb is built on t.device (torch.arange(half_dim, device=t.device)); lin1,
\* whose parameters are on device, refuses an input that is on another device
TimeEmbeddingForward(te, t, device) ==
  LET half_dim == te.n_channels \div 8
  IN IF half_dim - 1 = 0 THEN Err("zero_division")
     ELSE IF t.dev # device THEN Err("device")
     ELSE IF 2 * half_dim # te.n_channels \div 4 THEN Err("channels")
     ELSE [err |-> "none", x |-> NoShape, t |-> Emb(t.b, te.n_channels, device)]

\* ------------------------------------------------------------ ResidualBlock
ResidualBlock(in_channels, out_channels, time_channels, is_noise) ==
  [in_channels |-> in_channels, out_channels |-> out_channels,
   time_channels |-> time_channels, is_noise |-> is_noise]

NoRes == ResidualBlock(0, 0, 0, FALSE)
NoConv == Conv2d(0, 0, 0, 0, 0, 0)

\* both group normalizations of the block can be constructed
ResidualBlockOK(rb) == NormalizeOK(rb.in_channels) /\ NormalizeOK(rb.out_channels)

\* GroupNorm applied to x: torch refuses an input with a single value per group
\* (size(0) * size(1) // num_groups times the spatial sizes equal to 1) before
\* it compares the channel count with num_channels
NormalizeForward(num_channels, x) ==
  IF ((x.b * x.c) \div NumGroups) * x.h * x.w = 1 THEN Err("norm_size")
  ELSE IF x.c # num_channels THEN Err("channels")
  ELSE Ok(x)

ResResult(err, x, cond) == [err |-> err, x |-> x, cond |-> cond]

\* norm1, conv1, the conditioning add, norm2, conv2, the shortcut;
\* cond: whether the block added linear(Swish(t)) to its features
ResidualBlockForward(rb, x, t) ==
  LET n1 == NormalizeForward(rb.in_channels, x)
      hh == Shape(x.b, rb.out_channels, x.h, x.w)
      n2 == NormalizeForward(rb.out_channels, hh)
  IN IF n1.err # "none" THEN ResResult(n1.err, NoShape, FALSE)
     ELSE IF rb.is_noise /\ t.kind = "None" THEN ResResult("type", NoShape, FALSE)
     ELSE IF rb.is_noise /\ t.kind # "emb" THEN ResResult("channels", NoShape, FALSE)
     ELSE IF rb.is_noise /\ t.c # rb.time_channels THEN ResResult("channels", NoShape, FALSE)
     ELSE IF rb.is_noise /\ t.b # x.b /\ t.b # 1 THEN ResResult("broadcast", NoShape, FALSE)
     ELSE IF n2.err # "none" THEN ResResult(n2.err, NoShape, FALSE)
     ELSE ResResult("none", hh, rb.is_noise)

\* ------------------------------------------------------- blocks of the U-Net
\* One record shape for every member of the down and up lists.  lvl (the loop
\* index i the member was built at) and extra (built by the statement after the
\* inner loop) are the construction site of the member, kept to state properties.
Module(kind, res, embedding_size, flag, flag1, flag2, conv, lvl, extra) ==
  [kind |-> kind, res |-> res, embedding_size |-> embedding_size, flag |-> flag,
   flag1 |-> flag1, flag2 |-> flag2, conv |-> conv, lvl |-> lvl, extra |-> extra]

DownBlock(in_channels, out_channels, time_channels, flag, is_noise) ==
  Module("DownBlock", ResidualBlock(in_channels, out_channels, time_channels, is_noise),
         out_channels, flag, 0, 0, NoConv, flag, FALSE)

UpBlock(in_channels, out_channels, time_channels, flag2, is_noise, flag1) ==
  Module("UpBlock",
         ResidualBlock(in_channels + out_channels, out_channels, time_channels, is_noise),
         out_channels, 0, flag1, flag2, NoConv, flag2, FALSE)

UpsampleKernel3(n_channels) ==
  Module("Upsample", NoRes, 0, 0, 0, 0, Conv2d(n_channels, n_channels, 3, 2, 1, 1), 0, FALSE)

Upsample(n_channels) ==
  Module("Upsample", NoRes, 0, 0, 0, 0, Conv2d(n_channels, n_channels, 4, 2, 1, 1), 0, FALSE)

DownsamplePad0(n_channels) ==
  Module("Downsample", NoRes, 0, 0, 0, 0, Conv2d(n_channels, n_channels, 3, 2, 0, 1), 0, FALSE)

Downsample(n_channels) ==
  Module("Downsample", NoRes, 0, 0, 0, 0, Conv2d(n_channels, n_channels, 3, 2, 1, 1), 0, FALSE)

UpsampleForward(m, x) == ConvTranspose2dForward(m.conv, x)
DownsampleForward(m, x) == Conv2dForward(m.conv, x)

\* result of a block: error or shape, the conditioning adds of its residual
\* blocks in order, whether the mixer ran, whether attention ran
BlockResult(err, x, conds, mixer, att) ==
  [err |-> err, x |-> x, conds |-> conds, mixer |-> mixer, att |-> att]

DownBlockForwardAtt1(m, x, t) ==
  LET r == ResidualBlockForward(m.res, x, t)
      p == MLPForward(m.embedding_size, r.x)
  IN IF r.err # "none" THEN BlockResult(r.err, NoShape, <<>>, FALSE, FALSE)
     ELSE IF p.err # "none" THEN BlockResult(p.err, NoShape, <<r.cond>>, FALSE, FALSE)
     ELSE IF m.flag >= 1
       THEN BlockResult("none", StripformerForward(m.embedding_size, p.x).x, <<r.cond>>, TRUE, TRUE)
     ELSE BlockResult("none", p.x, <<r.cond>>, TRUE, FALSE)

DownBlockForward(m, x, t) ==
  LET r == ResidualBlockForward(m.res, x, t)
      p == MLPForward(m.embedding_size, r.x)
  IN IF r.err # "none" THEN BlockResult(r.err, NoShape, <<>>, FALSE, FALSE)
     ELSE IF p.err # "none" THEN BlockResult(p.err, NoShape, <<r.cond>>, FALSE, FALSE)
     ELSE IF m.flag >= 2
       THEN BlockResult("none", StripformerForward(m.embedding_size, p.x).x, <<r.cond>>, TRUE, TRUE)
     ELSE BlockResult("none", p.x, <<r.cond>>, TRUE, FALSE)

UpBlockForward(m, x, t) ==
  LET r == ResidualBlockForward(m.res, x, t)
      p == IF m.flag1 # 0 THEN MLPForward(m.embedding_size, r.x) ELSE Ok(r.x)
  IN IF r.err # "none" THEN BlockResult(r.err, NoShape, <<>>, FALSE, FALSE)
     ELSE IF p.err # "none" THEN BlockResult(p.err, NoShape, <<r.cond>>, FALSE, FALSE)
     ELSE IF m.flag1 # 0 /\ m.flag2 >= 2
       THEN BlockResult("none", StripformerForward(m.embedding_size, p.x).x, <<r.cond>>, TRUE, TRUE)
     ELSE BlockResult("none", p.x, <<r.cond>>, m.flag1 # 0, FALSE)

\* -------------------------------------------------------------- MiddleBlock
\* nn.Conv2d(n_channels, n_channels, 3, 1, dilation=d, padding=get_pad(16, 3, 1, d))
DilatedConv(n_channels, d) ==
  Conv2d(n_channels, n_channels, 3, 1, get_pad(RefSize, 3, 1, d), d)

MiddleBlock(n_channels, time_channels, is_noise) ==
  [res1 |-> ResidualBlock(n_channels, n_channels, time_channels, is_noise),
   dia |-> [k \in 1..4 |-> DilatedConv(n_channels, Dilations[k])],
   sf |-> n_channels,
   res2 |-> ResidualBlock(n_channels, n_channels, time_channels, is_noise)]

MiddleBlockOK(mb) == ResidualBlockOK(mb.res1) /\ ResidualBlockOK(mb.res2)

\* stage k of MiddleBlock.forward applied to x: res1, dia1, dia2, sf, dia3,
\* dia4, res2; acc holds the conditioning adds of the residual blocks so far
MiddleStage(mb, k, x, t, acc) ==
  IF k = 1 \/ k = 7
  THEN LET r == ResidualBlockForward(IF k = 1 THEN mb.res1 ELSE mb.res2, x, t)
       IN BlockResult(r.err, r.x, Append(acc, r.cond), FALSE, FALSE)
  ELSE IF k = 4
  THEN BlockResult("none", StripformerForward(mb.sf, x).x, acc, FALSE, TRUE)
  ELSE LET r == Conv2dForward(mb.dia[IF k < 4 THEN k - 1 ELSE k - 2], x)
       IN BlockResult(r.err, r.x, acc, FALSE, FALSE)

\* stages k..7 in order; the first failing stage ends the chain
RECURSIVE MiddleStagesFrom(_, _, _, _)
MiddleStagesFrom(mb, k, r, t) ==
  IF r.err # "none" THEN BlockResult(r.err, NoShape, <<>>, FALSE, FALSE)
  ELSE IF k > 7 THEN BlockResult("none", r.x, r.conds, FALSE, TRUE)
  ELSE MiddleStagesFrom(mb, k + 1, MiddleStage(mb, k, r.x, t, r.conds), t)

MiddleBlockForward(mb, x, t) ==
  MiddleStagesFrom(mb, 1, BlockResult("none", x, <<>>, FALSE, FALSE), t)

\* ------------------------------------------------------------- DenoiserUNet
Config(input_channels, output_channels, n_channels, ch_mults, n_blocks, is_noise) ==
  [input_channels |-> input_channels, output_channels |-> output_channels,
   n_channels |-> n_channels, ch_mults |-> ch_mults, n_blocks |-> n_blocks,
   is_noise |-> is_noise]

\* ch_mults[i] of the source (0-based) is ch_mults[i + 1] here
Mult(cfg, i) == cfg.ch_mults[i + 1]

\* the down list from level i on; in_channels is the running variable of the loop
RECURSIVE BuildDown(_, _, _)
BuildDown(cfg, i, in_channels) ==
  IF i >= Len(cfg.ch_mults) THEN <<>>
  ELSE LET out_channels == cfg.n_channels * Mult(cfg, i)
           blocks == [j \in 1..cfg.n_blocks |->
                        DownBlock(IF j = 1 THEN in_channels ELSE out_channels, out_channels,
                                  cfg.n_channels * 4, i, cfg.is_noise)]
           ds == IF i < Len(cfg.ch_mults) - 1 THEN <<Downsample(out_channels)>> ELSE <<>>
       IN blocks \o ds \o BuildDown(cfg, i + 1, out_channels)

\* the up list from level i down to level 0, with the running in_channels
\* brought up to date inside the inner loop
RECURSIVE BuildUpTracked(_, _, _)
BuildUpTracked(cfg, i, in_channels) ==
  IF i < 0 THEN <<>>
  ELSE LET out_channels == cfg.n_channels * Mult(cfg, i)
           blocks == [j \in 1..cfg.n_blocks |->
                        UpBlock(IF j = 1 THEN in_channels ELSE out_channels, out_channels,
                                cfg.n_channels * 4, i, cfg.is_noise, 0)]
           in2 == cfg.n_channels * (IF i >= 1 THEN Mult(cfg, i - 1) ELSE 1)
           last == [UpBlock(in2, out_channels, cfg.n_channels * 4, i, cfg.is_noise, 1)
                      EXCEPT !.extra = TRUE]
           us == IF i > 0 THEN <<Upsample(out_channels)>> ELSE <<>>
       IN blocks \o <<last>> \o us \o BuildUpTracked(cfg, i - 1, out_channels)

\* the up list with the statement after the inner loop left out
RECURSIVE BuildUpNoExtra(_, _, _)
BuildUpNoExtra(cfg, i, in_channels) ==
  IF i < 0 THEN <<>>
  ELSE LET out_channels == cfg.n_channels * Mult(cfg, i)
           blocks == [j \in 1..cfg.n_blocks |->
                        UpBlock(in_channels, out_channels, cfg.n_channels * 4, i,
                                cfg.is_noise, 0)]
           us == IF i > 0 THEN <<Upsample(out_channels)>> ELSE <<>>
       IN blocks \o us \o BuildUpNoExtra(cfg, i - 1, out_channels)

\* the up list from level i down to level 0.  The inner loop does not assign
\* in_channels: all n_blocks blocks of a level are built from the same value.
RECURSIVE BuildUp(_, _, _)
BuildUp(cfg, i, in_channels) ==
  IF i < 0 THEN <<>>
  ELSE LET out_channels == cfg.n_channels * Mult(cfg, i)
           blocks == [j \in 1..cfg.n_blocks |->
                        UpBlock(in_channels, out_channels, cfg.n_channels * 4, i,
                                cfg.is_noise, 0)]
           in2 == cfg.n_channels * (IF i >= 1 THEN Mult(cfg, i - 1) ELSE 1)
           last == [UpBlock(in2, out_channels, cfg.n_channels * 4, i, cfg.is_noise, 1)
                      EXCEPT !.extra = TRUE]
           us == IF i > 0 THEN <<Upsample(out_channels)>> ELSE <<>>
       IN blocks \o <<last>> \o us \o BuildUp(cfg, i - 1, out_channels)

\* out_channels after the down loop: the width of the last level
DeepestChannels(cfg) == cfg.n_channels * Mult(cfg, Len(cfg.ch_mults) - 1)
\* in_channels after the up loop: the width of level 0
FinalChannels(cfg) == cfg.n_channels * Mult(cfg, 0)

MiddleOfConditioned(cfg) == MiddleBlock(DeepestChannels(cfg), cfg.n_channels * 4, cfg.is_noise)

MiddleOf(cfg) == MiddleBlock(DeepestChannels(cfg), cfg.n_channels * 4, FALSE)

HasRes(m) == m.kind \in {"DownBlock", "UpBlock"}

DenoiserUNet(cfg) ==
  LET down == BuildDown(cfg, 0, cfg.n_channels)
      middle == MiddleOf(cfg)
      up == BuildUp(cfg, Len(cfg.ch_mults) - 1, DeepestChannels(cfg))
  IN [input_channels |-> cfg.input_channels, output_channels |-> cfg.output_channels,
      n_channels |-> cfg.n_channels, ch_mults |-> cfg.ch_mults,
      n_blocks |-> cfg.n_blocks, is_noise |-> cfg.is_noise,
      image_proj |-> Conv2d(cfg.input_channels, cfg.n_channels, 3, 1, 1, 1),
      time_emb |-> TimeEmbedding(cfg.n_channels * 4),
      down |-> down, middle |-> middle, up |-> up,
      final |-> Conv2d(FinalChannels(cfg), cfg.output_channels, 3, 1, 1, 1),
      ok |-> /\ \A k \in 1..Len(down) : HasRes(down[k]) => ResidualBlockOK(down[k].res)
             /\ MiddleBlockOK(middle)
             /\ \A k \in 1..Len(up) : HasRes(up[k]) => ResidualBlockOK(up[k].res)]

\* ------------------------------------------------------------------- state
VARIABLES
  net,      \* the constructed DenoiserUNet
  pc,       \* position of the forward call
  idx,      \* index of the next member of net.down / net.up
  x,        \* shape of the current tensor
  x0,       \* shape of the input tensor of the call
  targ,     \* the timestep argument as the caller gave it
  t,        \* the value of the local t
  h,        \* the skip stack
  pushes,   \* appends to h so far
  pops,     \* pops of h so far
  log,      \* the modules run so far, in order
  err,      \* the error that ended the call
  fm,       \* single-layer runs: shape of the current feature map
  layer_ch, \* single-layer runs: n_channels the layers are built with
  trail,    \* single-layer runs: the layers applied so far
  device,   \* the device the parameters of net are on
  x_device  \* the device of the tensor x

vars == <<net, pc, idx, x, x0, targ, t, h, pushes, pops, log, err, fm, layer_ch, trail,
          device, x_device>>
layerVars == <<fm, layer_ch, trail>>
callVars == <<net, pc, idx, x, x0, targ, t, h, pushes, pops, log, err, device, x_device>>

\* ------------------------------------------------------------------ inputs
Bases == {NumGroups \div 2, NumGroups}
\* every schedule of at most MaxLevels levels, the default schedule, and the
\* uniform schedule one level deeper than the enumerated ones
UniformDeep == [l \in 1..(MaxLevels + 1) |-> 1]
Schedules ==
  UNION {[1..l -> 1..MaxMult] : l \in 1..MaxLevels} \cup {DefaultChMults, UniformDeep}
Configs ==
  {Config(DefaultInputChannels, DefaultOutputChannels, n, m, nb, c) :
     n \in Bases, m \in Schedules, nb \in 1..MaxBlocks, c \in BOOLEAN}
DefaultConfig ==
  Config(DefaultInputChannels, DefaultOutputChannels, DefaultNChannels, DefaultChMults,
         DefaultNBlocks, TRUE)
\* spatial sizes: the small ones and the 64 of the reference input [1, 2, 64, 64]
ScenarioInput == Shape(1, 2, 64, 64)
Sizes == 1..MaxSize \cup {ScenarioInput.h}
Batches == {1, 2}
\* widths tried with a height: the height itself, an odd and an even width
Widths(hh) == {hh, 3, 4}
\* inputs with the channel count the network was built for, and one with a
\* channel too many
Inputs(n) ==
  UNION {{Shape(b, n.input_channels, hh, ww) : b \in Batches, ww \in Widths(hh)} :
           hh \in Sizes}
    \cup {Shape(1, n.input_channels + 1, ScenarioInput.h, ScenarioInput.w)}
\* the caller passes no timestep, or a batch of two timesteps on either device
TimestepArgs == {Absent} \cup {Steps(2, d) : d \in Devices}

\* the default of the parameter t: torch.tensor([0]).cuda(), one timestep on the
\* CUDA device, created when the class body is executed (a machine without
\* CUDA cannot load the module, so it has no DenoiserUNet at all)
DefaultT == Steps(1, "cuda")

NoErr == [kind |-> "none", stack |-> "none", idx |-> 0]
Event(stack, m_kind, lvl, extra, r, xin) ==
  [stack |-> stack, kind |-> m_kind, lvl |-> lvl, extra |-> extra, conds |-> r.conds,
   mixer |-> r.mixer, att |-> r.att, xin |-> xin, xout |-> r.x]

Init ==
  /\ net \in {DenoiserUNet(cfg) : cfg \in Configs}
  /\ pc = IF net.ok THEN "idle" ELSE "config_error"
  /\ idx = 0
  /\ x = NoShape
  /\ x0 = NoShape
  /\ targ = Absent
  /\ t = Absent
  /\ h = <<>>
  /\ pushes = 0
  /\ pops = 0
  /\ log = <<>>
  /\ err = NoErr
  /\ fm = NoShape
  /\ layer_ch = 0
  /\ trail = <<>>
  /\ device = "cpu"
  /\ x_device = "cpu"

Fail(kind, stack, k) ==
  /\ pc' = "error"
  /\ err' = [kind |-> kind, stack |-> stack, idx |-> k]

\* ------------------------------------------------------- nn.Module.to(d)
\* DenoiserUNet is an nn.Module: it is constructed with its parameters on the
\* CPU and .cuda() / .cpu() / .to(d) move them between calls
MoveTo(d) ==
  /\ pc = "idle"
  /\ device # d
  /\ device' = d
  /\ UNCHANGED <<net, pc, idx, x, x0, targ, t, h, pushes, pops, log, err, x_device,
                 layerVars>>

\* ---------------------------------------------------- DenoiserUNet.forward
\* the call binds the parameters; a missing t takes the default
Call(xin, xd, ta) ==
  /\ pc = "idle"
  /\ pc' = "time_emb"
  /\ x' = xin
  /\ x0' = xin
  /\ x_device' = xd
  /\ targ' = ta
  /\ t' = IF ta = Absent THEN DefaultT ELSE ta
  /\ UNCHANGED <<net, idx, h, pushes, pops, log, err, device, layerVars>>

\* a forward that refuses a timestep the model does not use, and a missing one
ConditioningStrict(n, ta, tv, dev) ==
  IF n.is_noise /\ ta = Absent THEN Err("missing_conditioning") @@ [t |-> NoneT]
  ELSE IF ~n.is_noise /\ ta # Absent THEN Err("missing_conditioning") @@ [t |-> NoneT]
  ELSE IF n.is_noise THEN TimeEmbeddingForward(n.time_emb, tv, dev)
  ELSE [err |-> "none", x |-> NoShape, t |-> NoneT]

\* if self.is_noise: t = self.time_emb(t) else: t = None
Conditioning(n, ta, tv, dev) ==
  IF n.is_noise THEN TimeEmbeddingForward(n.time_emb, tv, dev)
  ELSE [err |-> "none", x |-> NoShape, t |-> NoneT]

TimeEmbStep ==
  /\ pc = "time_emb"
  /\ LET r == Conditioning(net, targ, t, device)
     IN IF r.err # "none"
        THEN Fail(r.err, "time_emb", 0) /\ UNCHANGED t
        ELSE pc' = "proj" /\ t' = r.t /\ UNCHANGED err
  /\ UNCHANGED <<net, idx, x, x0, targ, h, pushes, pops, log, device, x_device, layerVars>>

\* self.image_proj(x): the convolution checks the shape of x against its weight,
\* then that x is on the device of the weight
ImageProjForward(cv, xin, xd, dev) ==
  LET r == Conv2dForward(cv, xin)
  IN IF r.err # "none" THEN r
     ELSE IF xd # dev THEN Err("device")
     ELSE r

ImageProj ==
  /\ pc = "proj"
  /\ LET r == ImageProjForward(net.image_proj, x, x_device, device)
     IN IF r.err # "none"
        THEN Fail(r.err, "image_proj", 0) /\ UNCHANGED <<x, h, pushes, idx>>
        ELSE /\ pc' = "down"
             /\ idx' = 1
             /\ x' = r.x
             /\ h' = <<r.x>>
             /\ pushes' = 1
             /\ UNCHANGED err
  /\ UNCHANGED <<net, x0, targ, t, pops, log, device, x_device, layerVars>>

\* run one member of the down list
RunDown(m, xin, tv) ==
  IF m.kind = "DownBlock" THEN DownBlockForward(m, xin, tv)
  ELSE LET r == DownsampleForward(m, xin)
       IN BlockResult(r.err, r.x, <<>>, FALSE, FALSE)

DownStep ==
  /\ pc = "down"
  /\ idx <= Len(net.down)
  /\ LET m == net.down[idx]
         r == RunDown(m, x, t)
     IN IF r.err # "none"
        THEN Fail(r.err, "down", idx) /\ UNCHANGED <<x, h, pushes, idx, log>>
        ELSE /\ x' = r.x
             /\ h' = Append(h, r.x)
             /\ pushes' = pushes + 1
             /\ log' = Append(log, Event("down", m.kind, m.lvl, m.extra, r, x))
             /\ idx' = idx + 1
             /\ pc' = IF idx = Len(net.down) THEN "middle" ELSE "down"
             /\ UNCHANGED err
  /\ UNCHANGED <<net, x0, targ, t, pops, device, x_device, layerVars>>

MiddleStep ==
  /\ pc = "middle"
  /\ LET r == MiddleBlockForward(net.middle, x, t)
     IN IF r.err # "none"
        THEN Fail(r.err, "middle", 0) /\ UNCHANGED <<x, idx, log>>
        ELSE /\ x' = r.x
             /\ log' = Append(log, Event("middle", "MiddleBlock", Len(net.ch_mults) - 1,
                                         FALSE, r, x))
             /\ idx' = 1
             /\ pc' = "up"
             /\ UNCHANGED err
  /\ UNCHANGED <<net, x0, targ, t, h, pushes, pops, device, x_device, layerVars>>

\* torch.cat((x, s), dim=1)
Cat(a, s) ==
  IF a.b # s.b \/ a.h # s.h \/ a.w # s.w THEN Err("cat")
  ELSE Ok(Shape(a.b, a.c + s.c, a.h, a.w))

UpsampleStep ==
  /\ pc = "up"
  /\ idx <= Len(net.up)
  /\ net.up[idx].kind = "Upsample"
  /\ LET m == net.up[idx]
         r == UpsampleForward(m, x)
     IN IF r.err # "none"
        THEN Fail(r.err, "up", idx) /\ UNCHANGED <<x, idx, log>>
        ELSE /\ x' = r.x
             /\ log' = Append(log, Event("up", m.kind, m.lvl, m.extra,
                                         BlockResult("none", r.x, <<>>, FALSE, FALSE), x))
             /\ idx' = idx + 1
             /\ pc' = IF idx = Len(net.up) THEN "final" ELSE "up"
             /\ UNCHANGED err
  /\ UNCHANGED <<net, x0, targ, t, h, pushes, pops, device, x_device, layerVars>>

UpBlockStep ==
  /\ pc = "up"
  /\ idx <= Len(net.up)
  /\ net.up[idx].kind # "Upsample"
  /\ IF h = <<>>
     THEN Fail("pop_empty", "up", idx) /\ UNCHANGED <<x, h, pops, idx, log>>
     ELSE LET m == net.up[idx]
              s == h[Len(h)]
              c == Cat(x, s)
              r == IF c.err = "none" THEN UpBlockForward(m, c.x, t)
                   ELSE BlockResult(c.err, NoShape, <<>>, FALSE, FALSE)
          IN /\ h' = SubSeq(h, 1, Len(h) - 1)
             /\ pops' = pops + 1
             /\ IF r.err # "none"
                THEN /\ Fail(r.err, "up", idx)
                     /\ x' = IF c.err = "none" THEN c.x ELSE x
                     /\ UNCHANGED <<idx, log>>
                ELSE /\ x' = r.x
                     /\ log' = Append(log, Event("up", m.kind, m.lvl, m.extra, r, c.x))
                     /\ idx' = idx + 1
                     /\ pc' = IF idx = Len(net.up) THEN "final" ELSE "up"
                     /\ UNCHANGED err
  /\ UNCHANGED <<net, x0, targ, t, pushes, device, x_device, layerVars>>

\* return self.final(self.act(x))
FinalStep ==
  /\ pc = "final"
  /\ LET r == Conv2dForward(net.final, x)
     IN IF r.err # "none"
        THEN Fail(r.err, "final", 0) /\ UNCHANGED x
        ELSE pc' = "done" /\ x' = r.x /\ UNCHANGED err
  /\ UNCHANGED <<net, idx, x0, targ, t, h, pushes, pops, log, device, x_device, layerVars>>

Next ==
  \/ \E d \in Devices : MoveTo(d)
  \/ \E xin \in Inputs(net), xd \in Devices, ta \in TimestepArgs : Call(xin, xd, ta)
  \/ TimeEmbStep
  \/ ImageProj
  \/ DownStep
  \/ MiddleStep
  \/ UpsampleStep
  \/ UpBlockStep
  \/ FinalStep

Spec == Init /\ [][Next]_vars

\* ------------------------------------------------- single layers on their own
\* Downsample, Upsample and the four dilated convolutions of MiddleBlock, each
\* built for layer_ch channels and applied to the current feature map.
LayerEvent(op, d, r, xin) ==
  [op |-> op, d |-> d, err |-> r.err, xin |-> xin, xout |-> r.x]

LayerInputs ==
  {Shape(b, c, hh, ww) : b \in Batches, c \in {NumGroups, 2 * NumGroups},
                         hh \in Sizes, ww \in Sizes}

InitLayers ==
  /\ net = DenoiserUNet(DefaultConfig)
  /\ pc = "off"
  /\ idx = 0
  /\ x = NoShape
  /\ x0 = NoShape
  /\ targ = Absent
  /\ t = Absent
  /\ h = <<>>
  /\ pushes = 0
  /\ pops = 0
  /\ log = <<>>
  /\ err = NoErr
  /\ device = "cpu"
  /\ x_device = "cpu"
  /\ fm \in LayerInputs
  /\ layer_ch \in {NumGroups, 2 * NumGroups}
  /\ trail = <<>>

CanApply ==
  /\ pc = "off"
  /\ Len(trail) < MaxOps
  /\ trail # <<>> => trail[Len(trail)].err = "none"

Applied(op, d, r) ==
  /\ trail' = Append(trail, LayerEvent(op, d, r, fm))
  /\ fm' = r.x
  /\ UNCHANGED <<layer_ch, callVars>>

ApplyDownsample ==
  /\ CanApply
  /\ Applied("Downsample", 1, DownsampleForward(Downsample(layer_ch), fm))

ApplyUpsample ==
  /\ CanApply
  /\ Applied("Upsample", 1, UpsampleForward(Upsample(layer_ch), fm))

ApplyDilated(k) ==
  /\ CanApply
  /\ Applied("dilated", Dilations[k], Conv2dForward(DilatedConv(layer_ch, Dilations[k]), fm))

NextLayers ==
  \/ ApplyDownsample
  \/ ApplyUpsample
  \/ \E k \in 1..Len(Dilations) : ApplyDilated(k)

SpecLayers == InitLayers /\ [][NextLayers]_vars

\* ------------------------------------------------------ vocabulary of claims
RECURSIVE Pow2(_)
Pow2(k) == IF k <= 0 THEN 1 ELSE 2 * Pow2(k - 1)

Levels == Len(net.ch_mults)
\* a spatial size the down/up chain of this network halves without remainder
Divisible(n) == n % Pow2(Levels - 1) = 0
SizesFit == Divisible(x0.h) /\ Divisible(x0.w)
Terminal == pc \in {"done", "error"}
Started == pc \notin {"idle", "config_error", "off"}
\* the input has the channel count the network was built for
InputChannelsFit == x0.c = net.input_channels
\* the timestep in effect: the argument, or the default when it was left out
EffectiveT == IF targ = Absent THEN DefaultT ELSE targ
\* the timestep batch in effect is one timestep or one per sample
TimestepBatchFits == ~net.is_noise \/ EffectiveT.b \in {1, x0.b}
\* the input, and the timestep when the network embeds it, are on the device of
\* the parameters
DevicesFit == x_device = device /\ (net.is_noise => EffectiveT.dev = device)
AllAdjacentEqual(m) == \A i \in 1..(Len(m) - 1) : m[i] = m[i + 1]
ChannelConsistent == net.n_blocks = 1 \/ AllAdjacentEqual(net.ch_mults)
\* what any call needs in order to return: fitting input channels and device,
\* divisible sizes, a channel-consistent configuration, and no group
\* normalization that meets a single value per group
ReturnsLikeAnyCall ==
  pc = "done" <=> (/\ InputChannelsFit
                   /\ x_device = device
                   /\ SizesFit
                   /\ ChannelConsistent
                   /\ err.kind # "norm_size")
NonUpsampleCount(ms) == Cardinality({k \in 1..Len(ms) : ms[k].kind # "Upsample"})
LogEvents == {log[k] : k \in 1..Len(log)}
TrailEvents == {trail[k] : k \in 1..Len(trail)}

\* C1: for every valid configuration and every input [B, input_channels, H, W]
\* with H and W divisible by 2^(levels-1), forward completes without a shape
\* error and returns a tensor of shape [B, output_channels, H, W].
C1_ShapeInvariance ==
  (Terminal /\ InputChannelsFit /\ TimestepBatchFits /\ DevicesFit /\ SizesFit)
    => (pc = "done" /\ x = Shape(x0.b, net.output_channels, x0.h, x0.w))

\* C2: the up list pops as many skips as the down pass pushes (one after the
\* image projection, one per down member; one pop per up member that is not an
\* Upsample); no pop meets an empty stack, the stack is non-empty while an up
\* member is still to run, and it is empty once the up pass is over.
C2_SkipSymmetry ==
  /\ NonUpsampleCount(net.up) = 1 + Len(net.down)
  /\ pushes - pops = Len(h)
  /\ err.kind # "pop_empty"
  /\ (pc = "up" /\ idx <= Len(net.up)) => h # <<>>
  /\ pc \in {"middle", "up", "final", "done"} => pushes = 1 + Len(net.down)
  /\ pc = "up" =>
       pops = NonUpsampleCount(SubSeq(net.up, 1, idx - 1))
  /\ pc \in {"final", "done"} =>
       /\ h = <<>>
       /\ pops = pushes
       /\ pops = NonUpsampleCount(net.up)

C2_Witness ==
  /\ pc = "done"
  /\ Levels >= 2
  /\ net.n_blocks >= 2
  /\ pops = pushes
  /\ pops >= 6

\* C3: a timestep given to a model built without conditioning, or no timestep
\* given to a model built with conditioning, ends the call in an error.
C3_MissingConditioningErrors ==
  (Terminal /\ ((~net.is_noise /\ targ # Absent) \/ (net.is_noise /\ targ = Absent)))
    => pc = "error"

\* C3 as amended: forward never rejects either mismatch as such.  Without
\* conditioning a given timestep is discarded unread (t is None from then on,
\* whatever device the timestep is on) and the call returns exactly when any
\* other call would.  With conditioning a missing timestep is replaced by the
\* default, one timestep on the CUDA device: while the parameters are on the CPU
\* the call ends in the device error of the first linear layer of the time
\* embedding; once they are on the CUDA device the default is embedded and the
\* call returns exactly when any other call would.
C3_ConditioningArgumentIgnored ==
  /\ err.kind \notin {"missing_conditioning", "type", "zero_division"}
  /\ (Started /\ ~net.is_noise)
       => /\ pc # "time_emb" => t = NoneT
          /\ err.stack # "time_emb"
          /\ err.kind = "device" => (err.stack = "image_proj" /\ x_device # device)
          /\ Terminal => ReturnsLikeAnyCall
  /\ (Started /\ net.is_noise /\ targ = Absent)
       => /\ pc = "time_emb" => t = Steps(1, "cuda")
          /\ err.kind # "broadcast"
          /\ device # "cuda"
               => /\ pc \in {"time_emb", "error"}
                  /\ pc = "error" => (err.kind = "device" /\ err.stack = "time_emb")
          /\ device = "cuda"
               => /\ pc # "time_emb" => t = Emb(1, net.n_channels * 4, "cuda")
                  /\ err.stack # "time_emb"
                  /\ Terminal => ReturnsLikeAnyCall

\* a given timestep ignored: the call returns although the timestep is on
\* another device than the network
C3_WitnessIgnored ==
  /\ pc = "done"
  /\ ~net.is_noise
  /\ device = "cpu"
  /\ targ = Steps(2, "cuda")
  /\ t = NoneT
  /\ x = Shape(x0.b, net.output_channels, x0.h, x0.w)

\* a missing timestep replaced by the default: the call returns on the CUDA
\* device with batch 2, conditioned on the embedding of the one default timestep
C3_WitnessDefault ==
  /\ pc = "done"
  /\ net.is_noise
  /\ device = "cuda"
  /\ targ = Absent
  /\ t = Emb(1, net.n_channels * 4, "cuda")
  /\ x0.b = 2
  /\ x = Shape(x0.b, net.output_channels, x0.h, x0.w)
  /\ \E e \in LogEvents : e.kind = "DownBlock" /\ e.conds = <<TRUE>>

\* a missing timestep replaced by the default while the network is on the CPU
C3_WitnessDefaultOnCpu ==
  /\ pc = "error"
  /\ net.is_noise
  /\ device = "cpu"
  /\ x_device = "cpu"
  /\ targ = Absent
  /\ t = Steps(1, "cuda")
  /\ err = [kind |-> "device", stack |-> "time_emb", idx |-> 0]

C3_Witness == C3_WitnessDefault \/ C3_WitnessIgnored

\* C4: with two or more levels and a height or width not divisible by
\* 2^(levels-1), forward ends in the error of an up-stack concatenation whose
\* operands differ in spatial size.
C4_SpatialMismatchError ==
  (Terminal /\ Levels >= 2 /\ InputChannelsFit /\ TimestepBatchFits /\ DevicesFit /\ ~SizesFit)
    => (pc = "error" /\ err.kind = "cat" /\ err.stack = "up")

\* C4 as amended: with two or more levels and a height or width not divisible
\* by 2^(levels-1), forward never returns.  It ends in the spatial mismatch of
\* an up-stack concatenation, unless an earlier error ends it: a group
\* normalization that meets a single value per group (batch 1 only), or the
\* channel-count error of a plain UpBlock (only when n_blocks >= 2 and adjacent
\* multipliers differ).
C4_NonDivisibleNeverReturns ==
  /\ (Levels >= 2 /\ ~SizesFit) => pc # "done"
  /\ (Terminal /\ Levels >= 2 /\ InputChannelsFit /\ TimestepBatchFits /\ DevicesFit /\ ~SizesFit)
    => /\ pc = "error"
       /\ \/ err.kind = "cat" /\ err.stack = "up"
          \/ err.kind = "norm_size" /\ x0.b = 1
          \/ /\ err.kind = "channels"
             /\ err.stack = "up"
             /\ ~net.up[err.idx].extra
             /\ ~ChannelConsistent
       /\ (x0.b >= 2 /\ ChannelConsistent) => (err.kind = "cat" /\ err.stack = "up")

C4_Witness ==
  /\ pc = "error"
  /\ err.kind = "cat"
  /\ err.stack = "up"
  /\ Levels = 2
  /\ x0.h = 3
  /\ x0.w = 4
  /\ x.h = 4
  /\ x.w = 4

\* C5: with conditioning enabled, the first residual block of MiddleBlock adds
\* the conditioning term and the second one does not.
C5_MiddleFirstBlockConditioned ==
  \A e \in LogEvents :
    (e.kind = "MiddleBlock" /\ net.is_noise) => e.conds = <<TRUE, FALSE>>

\* C5 as amended: both residual blocks of MiddleBlock are built with
\* conditioning disabled and neither adds the conditioning term, whether or not
\* the network has conditioning; the residual block of every DownBlock and
\* UpBlock adds it exactly when the network has conditioning.
C5_MiddleNeverConditioned ==
  /\ ~net.middle.res1.is_noise
  /\ ~net.middle.res2.is_noise
  /\ \A e \in LogEvents :
       /\ e.kind = "MiddleBlock" => e.conds = <<FALSE, FALSE>>
       /\ e.kind \in {"DownBlock", "UpBlock"} => e.conds = <<net.is_noise>>

C5_Witness ==
  /\ net.is_noise
  /\ \E e \in LogEvents : e.kind = "MiddleBlock"
  /\ \E e \in LogEvents : e.kind = "UpBlock" /\ e.conds = <<TRUE>>

\* C6: each dilated convolution of MiddleBlock (kernel 3, stride 1, dilation d
\* in {2, 4, 8, 16}, padding get_pad(16, 3, 1, d)) returns a feature map of the
\* height and width it was given, for every input size.
C6_DilatedPaddingPreservesSize ==
  \A e \in TrailEvents :
    (e.op = "dilated" /\ e.xin.c = layer_ch)
      => /\ e.err = "none"
         /\ e.xout.h = e.xin.h
         /\ e.xout.w = e.xin.w
         /\ e.xin.h + 2 * DilatedConv(layer_ch, e.d).pad - e.d * (3 - 1) = e.xin.h

C6_Witness ==
  \E e \in TrailEvents :
    /\ e.op = "dilated"
    /\ e.d = 16
    /\ e.err = "none"
    /\ e.xin.h = 1
    /\ e.xin.w = 5
    /\ e.xout.h = 1

\* C7: Downsample maps every spatial size H >= 1 to floor(H / 2).
C7_DownsampleFloorHalf ==
  \A e \in TrailEvents :
    (e.op = "Downsample" /\ e.err = "none")
      => (e.xout.h = e.xin.h \div 2 /\ e.xout.w = e.xin.w \div 2)

\* C7 as amended: Downsample maps every spatial size H >= 1 to ceil(H / 2),
\* which is H / 2 for even H and (H + 1) / 2 for odd H.
C7_DownsampleCeilHalf ==
  \A e \in TrailEvents :
    (e.op = "Downsample" /\ e.xin.c = layer_ch)
      => /\ e.err = "none"
         /\ e.xout.h = (e.xin.h + 1) \div 2
         /\ e.xout.w = (e.xin.w + 1) \div 2
         /\ e.xin.h % 2 = 0 => 2 * e.xout.h = e.xin.h
         /\ e.xin.h % 2 = 1 => 2 * e.xout.h = e.xin.h + 1

C7_Witness ==
  \E e \in TrailEvents :
    /\ e.op = "Downsample"
    /\ e.err = "none"
    /\ e.xin.h = 3
    /\ e.xout.h = 2
    /\ e.xin.w = 4
    /\ e.xout.w = 2

\* C8: Downsample followed by Upsample returns a feature map of the batch,
\* channel count, height and width of the original when H and W are even;
\* Upsample maps a size S to 2 * S.
C8_DownUpRoundTrip ==
  /\ \A e \in TrailEvents :
       (e.op = "Upsample" /\ e.err = "none")
         => e.xout = Shape(e.xin.b, e.xin.c, 2 * e.xin.h, 2 * e.xin.w)
  /\ \A k \in 1..(Len(trail) - 1) :
       (/\ trail[k].op = "Downsample"
        /\ trail[k + 1].op = "Upsample"
        /\ trail[k].xin.c = layer_ch
        /\ trail[k].xin.h % 2 = 0
        /\ trail[k].xin.w % 2 = 0)
         => /\ trail[k].err = "none"
            /\ trail[k + 1].err = "none"
            /\ trail[k + 1].xout = trail[k].xin

C8_Witness ==
  /\ Len(trail) = 2
  /\ trail[1].op = "Downsample"
  /\ trail[2].op = "Upsample"
  /\ trail[1].xin.h = 64
  /\ trail[1].xin.w = 64
  /\ trail[1].xout.h = 32
  /\ trail[2].xout = trail[1].xin

\* C9: a DownBlock runs attention exactly when its level is >= 2; an UpBlock
\* runs the mixer exactly when it is the extra block of its level (flag1 = 1)
\* and attention exactly when it is that block and its level is >= 2; each level
\* has n_blocks plain UpBlocks and one extra; no block of level 0 or 1 runs
\* attention.
C9_AttentionGating ==
  /\ \A k \in 1..Len(net.up) :
       net.up[k].kind = "UpBlock" => (net.up[k].flag1 = 1 <=> net.up[k].extra)
  /\ \A i \in 0..(Levels - 1) :
       /\ Cardinality({k \in 1..Len(net.up) :
            net.up[k].kind = "UpBlock" /\ net.up[k].lvl = i /\ ~net.up[k].extra})
            = net.n_blocks
       /\ Cardinality({k \in 1..Len(net.up) :
            net.up[k].kind = "UpBlock" /\ net.up[k].lvl = i /\ net.up[k].extra}) = 1
  /\ \A e \in LogEvents :
       /\ e.kind = "DownBlock" => (e.mixer /\ (e.att <=> e.lvl >= 2))
       /\ e.kind = "UpBlock" => /\ e.mixer <=> e.extra
                                /\ e.att <=> (e.extra /\ e.lvl >= 2)
       /\ (e.kind \in {"DownBlock", "UpBlock"} /\ e.lvl <= 1) => ~e.att

C9_Witness ==
  /\ pc = "done"
  /\ Levels = 4
  /\ \E e \in LogEvents : e.kind = "DownBlock" /\ e.lvl = 2 /\ e.att
  /\ \E e \in LogEvents : e.kind = "UpBlock" /\ e.lvl = 3 /\ e.extra /\ e.att
  /\ \E e \in LogEvents : e.kind = "UpBlock" /\ e.lvl = 3 /\ ~e.extra /\ ~e.att /\ ~e.mixer
  /\ \E e \in LogEvents : e.kind = "UpBlock" /\ e.lvl = 1 /\ e.extra /\ ~e.att /\ e.mixer

\* C10: the up pass is channel-consistent (every UpBlock receives the
\* in_channels + out_channels its residual block was built with, the final
\* convolution receives n_channels * ch_mults[0]) if and only if n_blocks = 1 or
\* all adjacent multipliers are equal; the down pass and MiddleBlock are
\* channel-consistent for every configuration.  (A pass that a group
\* normalization ends on a single value per group reaches no later module.)
C10_ChannelConsistency ==
  /\ (InputChannelsFit /\ err.kind = "channels")
       => /\ err.stack = "up"
          /\ net.up[err.idx].kind = "UpBlock"
          /\ ~ChannelConsistent
          /\ x.c # net.up[err.idx].res.in_channels
  /\ \A e \in LogEvents :
       /\ e.kind = "UpBlock" =>
            \E k \in 1..Len(net.up) : /\ net.up[k].lvl = e.lvl
                                      /\ net.up[k].extra = e.extra
                                      /\ e.xin.c = net.up[k].res.in_channels
       /\ e.kind = "MiddleBlock" => e.xin.c = net.middle.res1.in_channels
  /\ pc = "done" => ChannelConsistent
  /\ (Terminal /\ InputChannelsFit /\ TimestepBatchFits /\ DevicesFit /\ SizesFit)
       => /\ (ChannelConsistent /\ err.kind # "norm_size") => pc = "done"
          /\ (~ChannelConsistent /\ err.kind # "norm_size")
               => (pc = "error" /\ err.kind = "channels" /\ err.stack = "up")
          /\ (~ChannelConsistent /\ x0.b >= 2) => err.kind = "channels"
  /\ pc \in {"final", "done"} =>
       log[Len(log)].xout.c = net.n_channels * net.ch_mults[1]

C10_Witness ==
  /\ pc = "error"
  /\ err.kind = "channels"
  /\ err.stack = "up"
  /\ SizesFit
  /\ net.n_blocks = 2
  /\ net.ch_mults = <<1, 2>>
  /\ x.c = 64
  /\ net.up[err.idx].res.in_channels = 96
  /\ ~net.up[err.idx].extra

====
